---- MODULE Spec2Model ----
(***************************************************************************)
(* State synchronisation of the slide editor: PresentationProvider        *)
(* (src/lib/types.ts) and the stand-alone Editor component                *)
(* (src/components/editor.tsx).                                           *)
(*                                                                         *)
(* React semantics used throughout:                                        *)
(*  - a handler, timer callback or effect reads presentation,              *)
(*    currentSlideIndex, history, historyIndex and fabricCanvas from the   *)
(*    render in which it was created (its closure, a "render" record R    *)
(*    below); refs (slideTransitionRef, slideCacheRef) and the canvas are  *)
(*    read live (the "store" record M below);                              *)
(*  - the setState calls of one handler are batched: the last value set    *)
(*    for a state variable wins, a variable that is not set keeps its      *)
(*    committed value;                                                     *)
(*  - after the batch commits, the effects whose dependencies changed run  *)
(*    with the closure of the new render.                                  *)
(* Time advances in ticks of 50 ms. Timers fire when due, in the order     *)
(* they were registered.                                                   *)
(* A scene (the objects on the canvas) is a natural number, 0 being the    *)
(* empty scene; colours are natural numbers, 0 being "#ffffff"; slide ids  *)
(* are positive naturals handed out by a counter (uuidv4), 0 standing for  *)
(* an undefined id.                                                        *)
(***************************************************************************)
EXTENDS Integers, Sequences, FiniteSets, TLC

VARIABLES
  presentation,      \* useState: { title, slides }
  currentSlideIndex, \* useState, 0-based
  fabricCanvas,      \* useState: TRUE when a canvas is attached
  history,           \* useState: sequence of presentations
  historyIndex,      \* useState, 0-based cursor
  flags,             \* slideTransitionRef.current
  slideCache,        \* slideCacheRef.current: slide id -> saved canvas state
  canvas,            \* the fabric canvas: objects and backgroundColor
  listener,          \* closure of the registered canvas modification listener
  timers,            \* pending setTimeout callbacks, in registration order
  sinceUpdate,       \* ticks since flags.lastHistoryUpdate (capped)
  nextId,            \* next id createEmptySlide hands out
  ePresentation,     \* Editor useState: the presentation object
  eCurrentSlideIndex,\* Editor useState
  eHistory,          \* Editor useState: sequence of presentation objects
  eHistoryIndex,     \* Editor useState
  eNextOid,          \* identity of the next object the Editor allocates
  eNextId,           \* next slide id createEmptySlide hands the Editor
  deleted,           \* ids deleteSlide removed and no undo or redo restored
                     \* (history variable)
  ops,               \* number of user events so far
  lastOp             \* the last step taken (history variable)

providerVars == <<presentation, currentSlideIndex, fabricCanvas, history,
                  historyIndex, flags, slideCache, canvas, listener, timers,
                  sinceUpdate, nextId, deleted>>

editorVars == <<ePresentation, eCurrentSlideIndex, eHistory, eHistoryIndex,
                eNextOid, eNextId>>

vars == <<providerVars, editorVars, ops, lastOp>>

---------------------------------------------------------------------------
(* Bounds of the model *)
MaxSlides == 3
MaxScene == 1
MaxBg == 1
MaxOps == 3
SessionEdits == 28
EditorSessionEdits == 48

(* Program constants; delays are in ticks of 50 ms *)
HistoryLimit == 30
EditorHistoryLimit == 50
ThrottleTicks == 20
DebounceDelay == 6
MouseUpDelay == 2
SlideLoadDelay == 3
ReloadDelay == 1
ReorderDelay == 2
LoadedDelay == 2
EmptyLoadedDelay == 1

Scenes == 0..MaxScene
Backgrounds == 0..MaxBg
White == 0
NoId == 0

Min(a, b) == IF a < b THEN a ELSE b
Max(a, b) == IF a > b THEN a ELSE b

---------------------------------------------------------------------------
(* Data *)

createEmptySlide(id) ==
  [id |-> id, background |-> White, objects |-> 0, fabricState |-> <<>>]

\* JSON.parse(JSON.stringify(p)): a value copy, which is what a TLA+ value is
clonePresentation(p) == p

cloneSlide(s) == s

\* history.slice(0, historyIndex + 1)
Slice(h, n) == SubSeq(h, 1, Min(Max(n, 0), Len(h)))

\* the slides[i] lookup, 0-based; <<>> when undefined
SlideAt(p, i) ==
  IF i >= 0 /\ i < Len(p.slides) THEN <<p.slides[i + 1]>> ELSE <<>>

\* { version, objects, background } read off the canvas
CanvasState(cv) == [objects |-> cv.objects, background |-> cv.backgroundColor]

\* { ...slide, fabricState: state, objects }
WithState(slide, state) ==
  [slide EXCEPT !.fabricState = <<state>>, !.objects = state.objects]

\* slides[i] = { ...slides[i], fabricState: state, objects }; spreading an
\* undefined slides[i] yields a slide without id and background
AssignState(p, i, state) ==
  IF i < Len(p.slides)
    THEN [p EXCEPT !.slides[i + 1] = WithState(@, state)]
    ELSE [p EXCEPT !.slides =
            Append(@, WithState(createEmptySlide(NoId), state))]

\* slideCacheRef.current.set(id, { fabricState: state, objects })
CacheSet(cache, id, state) ==
  [k \in DOMAIN cache \cup {id} |-> IF k = id THEN state ELSE cache[k]]

\* slideCacheRef.current.delete(id)
CacheDelete(cache, id) == [k \in DOMAIN cache \ {id} |-> cache[k]]

\* slides.splice(i, 1)
RemoveAt(s, i) == SubSeq(s, 1, i) \o SubSeq(s, i + 2, Len(s))

\* slides.splice(i, 0, x)
InsertAt(s, i, x) == SubSeq(s, 1, i) \o <<x>> \o SubSeq(s, i + 1, Len(s))

\* const [moved] = slides.splice(from, 1); slides.splice(to, 0, moved)
MoveSlide(s, from, to) == InsertAt(RemoveAt(s, from), to, s[from + 1])

\* an index update that forgets the slide at the target position
MovedIndexStrict(cur, from, to) ==
  IF cur = from THEN to
  ELSE IF cur > from /\ cur < to THEN cur - 1
  ELSE IF cur < from /\ cur > to THEN cur + 1
  ELSE cur

\* the index the current slide has after a move
MovedIndex(cur, from, to) ==
  IF cur = from THEN to
  ELSE IF cur > from /\ cur <= to THEN cur - 1
  ELSE IF cur < from /\ cur >= to THEN cur + 1
  ELSE cur

---------------------------------------------------------------------------
(* Renders and the store *)

\* what a closure created in the current render captures
Render ==
  [presentation |-> presentation, currentSlideIndex |-> currentSlideIndex,
   history |-> history, historyIndex |-> historyIndex,
   fabricCanvas |-> fabricCanvas]

\* everything a handler can write
Store ==
  [presentation |-> presentation, currentSlideIndex |-> currentSlideIndex,
   fabricCanvas |-> fabricCanvas, history |-> history,
   historyIndex |-> historyIndex, flags |-> flags, slideCache |-> slideCache,
   canvas |-> canvas, listener |-> listener, timers |-> timers,
   sinceUpdate |-> sinceUpdate, nextId |-> nextId]

RenderOf(M) ==
  [presentation |-> M.presentation, currentSlideIndex |-> M.currentSlideIndex,
   history |-> M.history, historyIndex |-> M.historyIndex,
   fabricCanvas |-> M.fabricCanvas]

\* setTimeout(callback, delay) registered by a closure of render R
Timer(kind, due, R, newIndex) ==
  [kind |-> kind, due |-> due, env |-> R, newIndex |-> newIndex]

SetTimeout(M, kind, due, R, newIndex) ==
  [M EXCEPT !.timers = Append(@, Timer(kind, due, R, newIndex))]

\* an append that leaves the cursor one past the new entry
PushHistoryPastEnd(M, R, p, idxWhenFull) ==
  LET newHistory == Append(Slice(R.history, R.historyIndex + 1), p)
  IN [M EXCEPT !.history = newHistory, !.historyIndex = Len(newHistory)]

\* the append that saveCanvasState, updatePresentation, addSlide and
\* reorderSlides share: slice, push, shift when over the limit
PushHistory(M, R, p, idxWhenFull) ==
  LET newHistory == Append(Slice(R.history, R.historyIndex + 1),
                           clonePresentation(p))
  IN IF Len(newHistory) > HistoryLimit
       THEN [M EXCEPT !.history = Tail(newHistory),
                      !.historyIndex = idxWhenFull]
       ELSE [M EXCEPT !.history = newHistory,
                      !.historyIndex = Len(newHistory) - 1]

---------------------------------------------------------------------------
(* saveCanvasState and loadCanvasState *)

\* a save that appends to the history whatever the time of the last append
saveCanvasStateUnthrottled(R, M) ==
  IF ~R.fabricCanvas \/ M.flags.isChangingSlide \/ M.flags.isSavingState
    THEN M
    ELSE
      LET state == CanvasState(M.canvas)
          cur == SlideAt(R.presentation, R.currentSlideIndex)
          M1 == [M EXCEPT !.slideCache =
                             IF cur # <<>> THEN CacheSet(@, cur[1].id, state)
                                           ELSE @]
          newPresentation ==
            AssignState(clonePresentation(R.presentation),
                        R.currentSlideIndex, state)
      IN [PushHistory([M1 EXCEPT !.presentation = newPresentation], R,
                      newPresentation, R.historyIndex)
            EXCEPT !.sinceUpdate = 0]

\* the closure R supplies presentation, currentSlideIndex, history and
\* historyIndex; the flags, the cache and the canvas are read live
saveCanvasState(R, M) ==
  IF ~R.fabricCanvas \/ M.flags.isChangingSlide \/ M.flags.isSavingState
    THEN IF ~M.flags.isChangingSlide /\ ~M.flags.isSavingState
           THEN [M EXCEPT !.flags.pendingSave = TRUE]
           ELSE M
    ELSE
      LET state == CanvasState(M.canvas)
          cur == SlideAt(R.presentation, R.currentSlideIndex)
          M1 == [M EXCEPT !.flags.pendingSave = FALSE,
                          !.slideCache =
                             IF cur # <<>> THEN CacheSet(@, cur[1].id, state)
                                           ELSE @]
          newPresentation ==
            AssignState(clonePresentation(R.presentation),
                        R.currentSlideIndex, state)
          M2 == [M1 EXCEPT !.presentation = newPresentation]
      IN IF M2.sinceUpdate > ThrottleTicks
           THEN [PushHistory(M2, R, newPresentation, R.historyIndex)
                   EXCEPT !.sinceUpdate = 0]
           ELSE M2

\* fabricCanvas.loadFromJSON(state, callback): the scene and the background
\* of the canvas become those of state
LoadFromJSON(cv, state) ==
  [cv EXCEPT !.objects = state.objects, !.backgroundColor = state.background]

\* How the loads of one loadCanvasState complete. loadedFromCache is set by
\* the callback of the first load: when that callback has run before the test
\* of line 314 ("sync") the fallback is skipped; otherwise the fallback runs
\* as well and either load can be the one that completes last.
LoadModes == {"sync", "cacheLast", "stateLast"}

loadCanvasState(R, M, mode) ==
  IF ~R.fabricCanvas THEN M
  ELSE
    LET cur == SlideAt(R.presentation, R.currentSlideIndex)
        M1 == [M EXCEPT !.flags.isChangingSlide = TRUE]
    IN IF cur = <<>> THEN [M1 EXCEPT !.flags.isChangingSlide = FALSE]
       ELSE
         LET currentSlide == cur[1]
             cleared == [objects |-> 0,
                         backgroundColor |-> currentSlide.background]
             hasCache == currentSlide.id \in DOMAIN M.slideCache
             hasState == currentSlide.fabricState # <<>>
             fromCache == LoadFromJSON(cleared, M.slideCache[currentSlide.id])
             fromState == LoadFromJSON(cleared, currentSlide.fabricState[1])
         IN IF hasCache /\ mode = "sync"
              THEN SetTimeout([M1 EXCEPT !.canvas = fromCache],
                              "loaded", LoadedDelay, R, 0)
            ELSE IF hasCache /\ hasState
              THEN SetTimeout(
                     SetTimeout(
                       [M1 EXCEPT !.canvas = IF mode = "stateLast"
                                               THEN fromState ELSE fromCache],
                       "loaded", LoadedDelay, R, 0),
                     "loaded", LoadedDelay, R, 0)
            ELSE IF hasCache
              THEN SetTimeout(
                     SetTimeout([M1 EXCEPT !.canvas = fromCache],
                                "loaded", EmptyLoadedDelay, R, 0),
                     "loaded", LoadedDelay, R, 0)
            ELSE IF hasState
              THEN SetTimeout([M1 EXCEPT !.canvas = fromState],
                              "loaded", LoadedDelay, R, 0)
            ELSE SetTimeout([M1 EXCEPT !.canvas = cleared],
                            "loaded", EmptyLoadedDelay, R, 0)

---------------------------------------------------------------------------
(* Effects *)

\* useEffect(..., [fabricCanvas, currentSlideIndex]): the cleanup clears the
\* debounce timer, the effect registers the listeners of the new render
ListenerEffect(R, M) ==
  LET kept == SelectSeq(M.timers, LAMBDA t : t.kind # "debounce")
  IN [M EXCEPT !.timers = kept,
               !.listener = IF R.fabricCanvas THEN <<R>> ELSE <<>>]

\* useEffect(..., [currentSlideIndex])
SlideChangeEffect(R, M, mode) ==
  LET prevIndex == M.flags.previousSlideIndex IN
  IF prevIndex = -1
    THEN [M EXCEPT !.flags.previousSlideIndex = R.currentSlideIndex]
  ELSE IF R.fabricCanvas /\ prevIndex # R.currentSlideIndex
    THEN
      LET state == CanvasState(M.canvas)
          prevSlide == SlideAt(R.presentation, prevIndex)
          M1 == [M EXCEPT !.flags.isChangingSlide = TRUE,
                          !.flags.pendingSave = FALSE]
          M2 == IF prevSlide = <<>> THEN M1
                ELSE [M1 EXCEPT
                        !.slideCache = CacheSet(@, prevSlide[1].id, state),
                        !.presentation =
                           IF prevIndex < Len(@.slides)
                             THEN AssignState(clonePresentation(@),
                                              prevIndex, state)
                             ELSE @]
      IN SetTimeout(M2, "load", SlideLoadDelay, R, 0)
  ELSE [loadCanvasState(R, M, mode)
          EXCEPT !.flags.previousSlideIndex = R.currentSlideIndex]

\* the commit of a batch of state updates: R0 is the render before it
Commit(R0, M, mode) ==
  LET R1 == RenderOf(M)
      M1 == IF R1.fabricCanvas # R0.fabricCanvas
               \/ R1.currentSlideIndex # R0.currentSlideIndex
              THEN ListenerEffect(R1, M) ELSE M
  IN IF R1.currentSlideIndex # R0.currentSlideIndex
       THEN SlideChangeEffect(R1, M1, mode) ELSE M1

---------------------------------------------------------------------------
(* Handlers *)

updatePresentation(R, M, newPresentation) ==
  LET M1 == [M EXCEPT !.presentation = newPresentation]
  IN IF ~M.flags.isChangingSlide
       THEN PushHistory(M1, R, newPresentation, Max(0, R.historyIndex))
       ELSE M1

updateCurrentSlide(R, M, updatedSlide) ==
  LET newPresentation ==
        IF R.currentSlideIndex < Len(R.presentation.slides)
          THEN [R.presentation EXCEPT
                  !.slides[R.currentSlideIndex + 1] = cloneSlide(updatedSlide)]
          ELSE [R.presentation EXCEPT
                  !.slides = Append(@, cloneSlide(updatedSlide))]
  IN updatePresentation(R, M, newPresentation)

addSlide(R, M) ==
  LET M1 == IF R.fabricCanvas /\ ~M.flags.isChangingSlide
              THEN saveCanvasState(R, M) ELSE M
      newPresentation ==
        [R.presentation EXCEPT
           !.slides = Append(@, createEmptySlide(M.nextId))]
      M2 == [M1 EXCEPT !.presentation = newPresentation,
                       !.nextId = @ + 1]
      M3 == PushHistory(M2, R, newPresentation, Max(0, R.historyIndex))
  IN [M3 EXCEPT !.currentSlideIndex = Len(newPresentation.slides) - 1]

\* a deleteSlide without its guard
deleteSlideUnguarded(R, M) ==
  LET newPresentation ==
        [R.presentation EXCEPT !.slides = RemoveAt(@, R.currentSlideIndex)]
  IN updatePresentation(R, M, newPresentation)

deleteSlide(R, M) ==
  IF Len(R.presentation.slides) <= 1 THEN M
  ELSE IF SlideAt(R.presentation, R.currentSlideIndex) = <<>>
    THEN M  \* slides[currentSlideIndex].id throws before anything is written
  ELSE
    LET slideId == R.presentation.slides[R.currentSlideIndex + 1].id
        M1 == [M EXCEPT !.slideCache = CacheDelete(@, slideId)]
        newPresentation ==
          [R.presentation EXCEPT !.slides = RemoveAt(@, R.currentSlideIndex)]
        M2 == updatePresentation(R, M1, newPresentation)
    IN [M2 EXCEPT !.currentSlideIndex =
          Min(R.currentSlideIndex, Len(newPresentation.slides) - 1)]

reorderSlides(R, M, fromIndex, toIndex) ==
  LET newIndex == MovedIndex(R.currentSlideIndex, fromIndex, toIndex) IN
  IF R.fabricCanvas /\ ~M.flags.isChangingSlide
    THEN
      LET state == CanvasState(M.canvas)
          cur == SlideAt(R.presentation, R.currentSlideIndex)
          M1 == [M EXCEPT !.flags.isChangingSlide = TRUE,
                          !.slideCache =
                             IF cur # <<>> THEN CacheSet(@, cur[1].id, state)
                                           ELSE @]
          saved == IF cur # <<>>
                     THEN AssignState(clonePresentation(R.presentation),
                                      R.currentSlideIndex, state)
                     ELSE R.presentation
          tempPresentation ==
            [saved EXCEPT !.slides = MoveSlide(@, fromIndex, toIndex)]
          M2 == [M1 EXCEPT !.presentation = tempPresentation]
          M3 == PushHistory(M2, R, tempPresentation,
                            Max(0, R.historyIndex))
      IN SetTimeout(M3, "reorder", ReorderDelay, R, newIndex)
    ELSE
      LET newPresentation ==
            [R.presentation EXCEPT !.slides = MoveSlide(@, fromIndex, toIndex)]
          M1 == updatePresentation(R, M, newPresentation)
      IN IF newIndex # R.currentSlideIndex
           THEN [M1 EXCEPT !.currentSlideIndex = newIndex] ELSE M1

\* undo (delta = -1) and redo (delta = +1) share their body
MoveCursor(R, M, delta) ==
  LET M1 == IF R.fabricCanvas /\ ~M.flags.isChangingSlide
              THEN saveCanvasState(R, M) ELSE M
      newIndex == R.historyIndex + delta
      target == clonePresentation(R.history[newIndex + 1])
      M2 == [M1 EXCEPT !.presentation = target, !.historyIndex = newIndex]
  IN IF SlideAt(target, R.currentSlideIndex) # <<>>
       THEN SetTimeout([M2 EXCEPT !.flags.isChangingSlide = TRUE],
                       "reload", ReloadDelay, R, 0)
       ELSE [M2 EXCEPT !.currentSlideIndex =
               Min(R.currentSlideIndex, Len(target.slides) - 1)]

undo(R, M) == IF R.historyIndex > 0 THEN MoveCursor(R, M, -1) ELSE M

redo(R, M) ==
  IF R.historyIndex < Len(R.history) - 1 THEN MoveCursor(R, M, 1) ELSE M

\* handleModification of the canvas modification effect, run by the
\* debounce timer with the closure R of the listener registration
handleModification(R, M) ==
  IF ~M.flags.isChangingSlide
    THEN
      LET cur == SlideAt(R.presentation, R.currentSlideIndex)
          M1 == IF cur # <<>>
                  THEN [M EXCEPT !.slideCache =
                          CacheSet(@, cur[1].id, CanvasState(M.canvas))]
                  ELSE M
      IN saveCanvasState(R, M1)
    ELSE M

\* a timer started without clearing the pending one
DebounceKeepPending(M, delay) ==
  [M EXCEPT !.timers = Append(@, Timer("debounce", delay, M.listener[1], 0))]

\* debouncedModification and the mouse:up listener
Debounce(M, delay) ==
  LET kept == SelectSeq(M.timers, LAMBDA t : t.kind # "debounce")
  IN [M EXCEPT !.timers =
        Append(kept, Timer("debounce", delay, M.listener[1], 0))]

---------------------------------------------------------------------------
(* The state machine *)

InitialPresentation ==
  [title |-> "Untitled Presentation", slides |-> <<createEmptySlide(1)>>]

\* PresentationProvider after the mount effects: the history holds the first
\* snapshot and the slide-change effect has recorded slide 0 as the previous
\* slide
ProviderMounted ==
  [presentation |-> InitialPresentation,
   currentSlideIndex |-> 0,
   fabricCanvas |-> FALSE,
   history |-> <<clonePresentation(InitialPresentation)>>,
   historyIndex |-> 0,
   flags |-> [isChangingSlide |-> FALSE, isSavingState |-> FALSE,
              pendingSave |-> FALSE, previousSlideIndex |-> 0],
   slideCache |-> <<>>,
   canvas |-> [objects |-> 0, backgroundColor |-> White],
   listener |-> <<>>,
   timers |-> <<>>,
   sinceUpdate |-> ThrottleTicks + 1,
   nextId |-> 2]

\* a session of n background changes after the mount, each in a new colour
RECURSIVE ProviderSession(_)
ProviderSession(n) ==
  IF n = 0 THEN ProviderMounted
  ELSE LET M == ProviderSession(n - 1)
           R == RenderOf(M)
       IN Commit(R, updateCurrentSlide(R, M,
                      [M.presentation.slides[1] EXCEPT !.background = n]),
                 "sync")

ProviderIs(M) ==
  /\ presentation = M.presentation
  /\ currentSlideIndex = M.currentSlideIndex
  /\ fabricCanvas = M.fabricCanvas
  /\ history = M.history
  /\ historyIndex = M.historyIndex
  /\ flags = M.flags
  /\ slideCache = M.slideCache
  /\ canvas = M.canvas
  /\ listener = M.listener
  /\ timers = M.timers
  /\ sinceUpdate = M.sinceUpdate
  /\ nextId = M.nextId

ProviderInit == ProviderIs(ProviderSession(0))

\* the store M becomes the next state
Becomes(M, name) ==
  /\ presentation' = M.presentation
  /\ currentSlideIndex' = M.currentSlideIndex
  /\ fabricCanvas' = M.fabricCanvas
  /\ history' = M.history
  /\ historyIndex' = M.historyIndex
  /\ flags' = M.flags
  /\ slideCache' = M.slideCache
  /\ canvas' = M.canvas
  /\ listener' = M.listener
  /\ timers' = M.timers
  /\ sinceUpdate' = M.sinceUpdate
  /\ nextId' = M.nextId
  /\ deleted' =
       LET before == {presentation.slides[k].id :
                        k \in 1..Len(presentation.slides)}
           after == {M.presentation.slides[k].id :
                       k \in 1..Len(M.presentation.slides)}
       IN IF name = "deleteSlide" THEN deleted \cup (before \ after)
          ELSE IF name \in {"undo", "redo"} THEN deleted \ after
          ELSE deleted
  /\ lastOp' = name
  /\ UNCHANGED editorVars

UserEvent == ops < MaxOps /\ ops' = ops + 1

\* SlideEditor's initCanvas: setFabricCanvas(newCanvas). The cleanup of the
\* effect on [fabricCanvas] clears the cache.
SetFabricCanvas ==
  /\ ~fabricCanvas
  /\ UNCHANGED ops
  /\ \E mode \in LoadModes :
       Becomes(Commit(Render,
                      [Store EXCEPT !.fabricCanvas = TRUE,
                                    !.canvas = [objects |-> 0,
                                                backgroundColor |-> White],
                                    !.slideCache = <<>>],
                      mode), "setFabricCanvas")

\* a click on a thumbnail of the navigator
SetCurrentSlideIndex ==
  /\ UserEvent
  /\ \E index \in 0..(Len(presentation.slides) - 1), mode \in LoadModes :
       /\ index # currentSlideIndex
       /\ Becomes(Commit(Render, [Store EXCEPT !.currentSlideIndex = index],
                         mode), "setCurrentSlideIndex")

AddSlide ==
  /\ UserEvent
  /\ Len(presentation.slides) < MaxSlides
  /\ \E mode \in LoadModes :
       Becomes(Commit(Render, addSlide(Render, Store), mode), "addSlide")

DeleteSlide ==
  /\ UserEvent
  /\ \E mode \in LoadModes :
       Becomes(Commit(Render, deleteSlide(Render, Store), mode), "deleteSlide")

ReorderSlides ==
  /\ UserEvent
  /\ \E fromIndex, toIndex \in 0..(Len(presentation.slides) - 1),
        mode \in LoadModes :
       /\ fromIndex # toIndex
       /\ Becomes(Commit(Render,
                         reorderSlides(Render, Store, fromIndex, toIndex),
                         mode), "reorderSlides")

\* the toolbar's background change: { ...currentSlide, background }
UpdateCurrentSlide ==
  /\ UserEvent
  /\ SlideAt(presentation, currentSlideIndex) # <<>>
  /\ \E bg \in Backgrounds, mode \in LoadModes :
       /\ bg # presentation.slides[currentSlideIndex + 1].background
       /\ Becomes(Commit(Render,
                         updateCurrentSlide(Render, Store,
                           [presentation.slides[currentSlideIndex + 1]
                              EXCEPT !.background = bg]),
                         mode), "updateCurrentSlide")

Undo ==
  /\ UserEvent
  /\ historyIndex > 0
  /\ \E mode \in LoadModes :
       Becomes(Commit(Render, undo(Render, Store), mode), "undo")

Redo ==
  /\ UserEvent
  /\ historyIndex < Len(history) - 1
  /\ \E mode \in LoadModes :
       Becomes(Commit(Render, redo(Render, Store), mode), "redo")

\* the user changes the scene: object:modified / object:added /
\* object:removed reach debouncedModification
ObjectModified ==
  /\ UserEvent
  /\ fabricCanvas
  /\ \E scene \in Scenes :
       /\ scene # canvas.objects
       /\ Becomes(Debounce([Store EXCEPT !.canvas.objects = scene],
                           DebounceDelay),
                  IF \E i \in 1..Len(timers) : timers[i].kind = "debounce"
                    THEN "objectModified(burst)" ELSE "objectModified")

MouseUp ==
  /\ UserEvent
  /\ fabricCanvas
  /\ Becomes(Debounce(Store, MouseUpDelay),
             IF \E i \in 1..Len(timers) : timers[i].kind = "debounce"
               THEN "mouseUp(burst)" ELSE "mouseUp")

\* the timer that is due and was registered first
DueTimer == CHOOSE i \in 1..Len(timers) :
              /\ timers[i].due = 0
              /\ \A j \in 1..(i - 1) : timers[j].due # 0

SomeDue == \E i \in 1..Len(timers) : timers[i].due = 0

WithoutTimer(M, i) ==
  [M EXCEPT !.timers = SubSeq(@, 1, i - 1) \o SubSeq(@, i + 1, Len(@))]

\* 50 ms pass while timers are pending
Tick ==
  /\ ~SomeDue
  /\ timers # <<>>
  /\ timers' = [i \in 1..Len(timers) |-> [timers[i] EXCEPT !.due = @ - 1]]
  /\ sinceUpdate' = Min(sinceUpdate + 1, ThrottleTicks + 1)
  /\ UNCHANGED <<presentation, currentSlideIndex, fabricCanvas, history,
                 historyIndex, flags, slideCache, canvas, listener, nextId,
                 deleted, ops, lastOp, editorVars>>

\* nothing is pending and the user pauses for more than a second
Idle ==
  /\ timers = <<>>
  /\ sinceUpdate <= ThrottleTicks
  /\ sinceUpdate' = ThrottleTicks + 1
  /\ UNCHANGED <<presentation, currentSlideIndex, fabricCanvas, history,
                 historyIndex, flags, slideCache, canvas, listener, timers,
                 nextId, deleted, ops, lastOp, editorVars>>

\* the debounce timer runs handleModification
HandleModification ==
  /\ SomeDue
  /\ timers[DueTimer].kind = "debounce"
  /\ \E mode \in LoadModes :
       Becomes(Commit(Render,
                      handleModification(timers[DueTimer].env,
                                         WithoutTimer(Store, DueTimer)),
                      mode),
               IF timers[DueTimer].env = Render
                 THEN "handleModification"
                 ELSE "handleModification(stale)")
  /\ UNCHANGED ops

\* the 150 ms timer of the slide-change effect
SlideLoadTimer ==
  /\ SomeDue
  /\ timers[DueTimer].kind = "load"
  /\ \E mode \in LoadModes :
       LET R == timers[DueTimer].env
           M == loadCanvasState(R, WithoutTimer(Store, DueTimer), mode)
       IN Becomes([M EXCEPT !.flags.previousSlideIndex = R.currentSlideIndex],
                  "slideLoadTimer")
  /\ UNCHANGED ops

\* the 50 ms timer of undo and redo
ReloadTimer ==
  /\ SomeDue
  /\ timers[DueTimer].kind = "reload"
  /\ \E mode \in LoadModes :
       Becomes(loadCanvasState(timers[DueTimer].env,
                               WithoutTimer(Store, DueTimer), mode),
               "reloadTimer")
  /\ UNCHANGED ops

\* the 100 ms timer of reorderSlides
ReorderTimer ==
  /\ SomeDue
  /\ timers[DueTimer].kind = "reorder"
  /\ \E mode \in LoadModes :
       LET t == timers[DueTimer]
           M == [WithoutTimer(Store, DueTimer)
                   EXCEPT !.flags.isChangingSlide = FALSE]
       IN IF t.newIndex # t.env.currentSlideIndex
            THEN Becomes(Commit(Render,
                                [M EXCEPT !.currentSlideIndex = t.newIndex],
                                mode), "reorderTimer")
            ELSE Becomes(loadCanvasState(t.env, M, mode), "reorderTimer")
  /\ UNCHANGED ops

\* the timers of loadCanvasState that end the transition
LoadedTimer ==
  /\ SomeDue
  /\ timers[DueTimer].kind = "loaded"
  /\ Becomes([WithoutTimer(Store, DueTimer)
                EXCEPT !.flags.isChangingSlide = FALSE], "loadedTimer")
  /\ UNCHANGED ops

Next ==
  \/ SetFabricCanvas
  \/ SetCurrentSlideIndex
  \/ AddSlide
  \/ DeleteSlide
  \/ ReorderSlides
  \/ UpdateCurrentSlide
  \/ Undo
  \/ Redo
  \/ ObjectModified
  \/ MouseUp
  \/ Tick
  \/ Idle
  \/ HandleModification
  \/ SlideLoadTimer
  \/ ReloadTimer
  \/ ReorderTimer
  \/ LoadedTimer

---------------------------------------------------------------------------
(* The Editor component of src/components/editor.tsx. Its presentations are
   objects with an identity: [oid, val]. A write through a reference changes
   the value under that identity wherever the object is held. *)

EditorStore ==
  [presentation |-> ePresentation, currentSlideIndex |-> eCurrentSlideIndex,
   history |-> eHistory, historyIndex |-> eHistoryIndex,
   nextOid |-> eNextOid, nextId |-> eNextId]

\* a clone that hands back the object it was given
Editor_shareReference(o, oid) == o

\* clonePresentation on objects: a new object with a copy of the value
Editor_clonePresentation(o, oid) == [oid |-> oid, val |-> o.val]

\* a write through a reference to object oid: every holder sees it
Editor_Write(E, oid, val) ==
  [E EXCEPT
     !.presentation = IF @.oid = oid THEN [@ EXCEPT !.val = val] ELSE @,
     !.history = [k \in 1..Len(@) |->
                    IF @[k].oid = oid THEN [@[k] EXCEPT !.val = val]
                                      ELSE @[k]]]

Editor_updatePresentation(E, newPresentation) ==
  LET snapshot == Editor_clonePresentation(newPresentation, E.nextOid)
      newHistory == Append(Slice(E.history, E.historyIndex + 1), snapshot)
      capped == IF Len(newHistory) > EditorHistoryLimit
                  THEN Tail(newHistory) ELSE newHistory
  IN [E EXCEPT !.presentation = newPresentation,
               !.history = capped,
               !.historyIndex = Len(capped) - 1,
               !.nextOid = @ + 1]

\* const newPresentation = clonePresentation(presentation), then a write of
\* val through newPresentation, then updatePresentation(newPresentation)
Editor_Change(E, val) ==
  LET newPresentation == Editor_clonePresentation(E.presentation, E.nextOid)
      E1 == Editor_Write([E EXCEPT !.nextOid = @ + 1],
                         newPresentation.oid, val)
  IN Editor_updatePresentation(E1, [newPresentation EXCEPT !.val = val])

Editor_addSlide(E) ==
  LET p == E.presentation.val
      E1 == Editor_Change(E, [p EXCEPT !.slides =
                                 Append(@, createEmptySlide(E.nextId))])
  IN [E1 EXCEPT !.currentSlideIndex = Len(p.slides), !.nextId = @ + 1]

Editor_deleteSlide(E) ==
  LET p == E.presentation.val IN
  IF Len(p.slides) <= 1 THEN E
  ELSE LET slides == IF E.currentSlideIndex < Len(p.slides)
                       THEN RemoveAt(p.slides, E.currentSlideIndex)
                       ELSE p.slides
           E1 == Editor_Change(E, [p EXCEPT !.slides = slides])
       IN IF E.currentSlideIndex >= Len(slides)
            THEN [E1 EXCEPT !.currentSlideIndex = Len(slides) - 1] ELSE E1

Editor_reorderSlides(E, fromIndex, toIndex) ==
  LET p == E.presentation.val
      E1 == Editor_Change(E, [p EXCEPT !.slides =
                                 MoveSlide(@, fromIndex, toIndex)])
  IN [E1 EXCEPT !.currentSlideIndex =
        MovedIndex(E.currentSlideIndex, fromIndex, toIndex)]

Editor_updateCurrentSlide(E, updatedSlide) ==
  LET p == E.presentation.val
  IN Editor_Change(E, [p EXCEPT !.slides[E.currentSlideIndex + 1] =
                                   cloneSlide(updatedSlide)])

\* undo (delta = -1) and redo (delta = +1)
Editor_MoveCursor(E, delta) ==
  [E EXCEPT !.historyIndex = @ + delta,
            !.presentation =
               Editor_clonePresentation(E.history[E.historyIndex + delta + 1],
                                        E.nextOid),
            !.nextOid = @ + 1]

Editor_undo(E) == IF E.historyIndex > 0 THEN Editor_MoveCursor(E, -1) ELSE E

Editor_redo(E) ==
  IF E.historyIndex < Len(E.history) - 1 THEN Editor_MoveCursor(E, 1) ELSE E

\* createNewPresentation builds the object (oid nextOid) and stores a clone
Editor_createNewPresentation(E) ==
  LET newPresentation ==
        [oid |-> E.nextOid,
         val |-> [title |-> "Untitled Presentation",
                  slides |-> <<createEmptySlide(E.nextId)>>]]
  IN [E EXCEPT !.presentation = newPresentation,
               !.currentSlideIndex = 0,
               !.history = <<Editor_clonePresentation(newPresentation,
                                                      E.nextOid + 1)>>,
               !.historyIndex = 0,
               !.nextOid = @ + 2,
               !.nextId = @ + 1]

\* a setFullPresentation that records p like an edit
Editor_setFullAsEdit(E, p) ==
  [Editor_updatePresentation(E, Editor_clonePresentation(p, E.nextOid + 1))
     EXCEPT !.nextOid = E.nextOid + 2]

\* setFullPresentation(p): p is an object the caller holds
Editor_setFullPresentation(E, p) ==
  [E EXCEPT !.presentation = Editor_clonePresentation(p, E.nextOid),
            !.currentSlideIndex = 0,
            !.history = <<Editor_clonePresentation(p, E.nextOid + 1)>>,
            !.historyIndex = 0,
            !.nextOid = @ + 2]

\* the Editor after the mount effect that initialises the history: the
\* history holds a clone of the initial presentation
EditorMounted ==
  LET initial == [oid |-> 1, val |-> InitialPresentation]
  IN [presentation |-> initial,
      currentSlideIndex |-> 0,
      history |-> <<Editor_clonePresentation(initial, 2)>>,
      historyIndex |-> 0,
      nextOid |-> 3,
      nextId |-> 2]

\* a session of n background changes after the mount, each in a new colour
RECURSIVE EditorSession(_)
EditorSession(n) ==
  IF n = 0 THEN EditorMounted
  ELSE LET E == EditorSession(n - 1)
       IN Editor_updateCurrentSlide(E,
            [E.presentation.val.slides[1] EXCEPT !.background = n])

EditorIs(E) ==
  /\ ePresentation = E.presentation
  /\ eCurrentSlideIndex = E.currentSlideIndex
  /\ eHistory = E.history
  /\ eHistoryIndex = E.historyIndex
  /\ eNextOid = E.nextOid
  /\ eNextId = E.nextId

EditorInit == EditorIs(EditorSession(0))

EditorBecomes(E, name) ==
  /\ ePresentation' = E.presentation
  /\ eCurrentSlideIndex' = E.currentSlideIndex
  /\ eHistory' = E.history
  /\ eHistoryIndex' = E.historyIndex
  /\ eNextOid' = E.nextOid
  /\ eNextId' = E.nextId
  /\ lastOp' = name
  /\ UNCHANGED providerVars

\* the mount effect that finds a saved presentation in localStorage:
\* setPresentation(parsed) and setHistory([parsed]) store the same object
EditorLoadSaved ==
  /\ lastOp \in {"init", "session"}
  /\ UNCHANGED ops
  /\ \E bg \in Backgrounds, scene \in Scenes :
       LET parsedPresentation ==
             [oid |-> eNextOid,
              val |-> [title |-> "Untitled Presentation",
                       slides |-> <<[createEmptySlide(1) EXCEPT
                                       !.background = bg,
                                       !.objects = scene]>>]]
       IN EditorBecomes([EditorStore EXCEPT
                           !.presentation = parsedPresentation,
                           !.history = <<parsedPresentation>>,
                           !.historyIndex = 0,
                           !.nextOid = @ + 1],
                        "Editor.loadSaved")

EditorAddSlide ==
  /\ UserEvent
  /\ Len(ePresentation.val.slides) < MaxSlides
  /\ EditorBecomes(Editor_addSlide(EditorStore), "Editor.addSlide")

EditorDeleteSlide ==
  /\ UserEvent
  /\ EditorBecomes(Editor_deleteSlide(EditorStore), "Editor.deleteSlide")

EditorReorderSlides ==
  /\ UserEvent
  /\ \E fromIndex, toIndex \in 0..(Len(ePresentation.val.slides) - 1) :
       /\ fromIndex # toIndex
       /\ EditorBecomes(Editor_reorderSlides(EditorStore, fromIndex, toIndex),
                        "Editor.reorderSlides")

\* the toolbar's background change and SlideEditor's saveCanvasState:
\* { ...slide, objects, background }
EditorUpdateCurrentSlide ==
  /\ UserEvent
  /\ SlideAt(ePresentation.val, eCurrentSlideIndex) # <<>>
  /\ \E bg \in Backgrounds, scene \in Scenes :
       LET slide == ePresentation.val.slides[eCurrentSlideIndex + 1] IN
       /\ bg # slide.background \/ scene # slide.objects
       /\ EditorBecomes(
            Editor_updateCurrentSlide(EditorStore,
              [slide EXCEPT !.background = bg, !.objects = scene]),
            "Editor.updateCurrentSlide")

EditorUndo ==
  /\ UserEvent
  /\ eHistoryIndex > 0
  /\ EditorBecomes(Editor_undo(EditorStore), "Editor.undo")

EditorRedo ==
  /\ UserEvent
  /\ eHistoryIndex < Len(eHistory) - 1
  /\ EditorBecomes(Editor_redo(EditorStore), "Editor.redo")

EditorCreateNewPresentation ==
  /\ UserEvent
  /\ EditorBecomes(Editor_createNewPresentation(EditorStore),
                   "Editor.createNewPresentation")

\* what reaches setFullPresentation: FileOperations' handleTitleChange passes
\* a clone of the presentation with a new title; a presentation with a slide
\* of its own stands for one built from a file
EditorFullInputs ==
  {[oid |-> eNextOid, val |-> v] :
     v \in {[ePresentation.val EXCEPT !.title = title] :
              title \in {"Untitled Presentation", "Deck"} \ {ePresentation.val.title}}
           \cup {[title |-> "Imported",
                  slides |-> <<[createEmptySlide(eNextId) EXCEPT
                                  !.objects = scene]>>] : scene \in Scenes}}

EditorSetFullPresentation ==
  /\ UserEvent
  /\ \E p \in EditorFullInputs :
       EditorBecomes(
         Editor_setFullPresentation(
           [EditorStore EXCEPT !.nextOid = @ + 1,
                               !.nextId = IF p.val.title = "Imported"
                                            THEN @ + 1 ELSE @], p),
         "Editor.setFullPresentation")

EditorSetCurrentSlideIndex ==
  /\ UserEvent
  /\ \E index \in 0..(Len(ePresentation.val.slides) - 1) :
       /\ index # eCurrentSlideIndex
       /\ EditorBecomes([EditorStore EXCEPT !.currentSlideIndex = index],
                        "Editor.setCurrentSlideIndex")

EditorNext ==
  \/ EditorLoadSaved
  \/ EditorAddSlide
  \/ EditorDeleteSlide
  \/ EditorReorderSlides
  \/ EditorUpdateCurrentSlide
  \/ EditorUndo
  \/ EditorRedo
  \/ EditorCreateNewPresentation
  \/ EditorSetFullPresentation
  \/ EditorSetCurrentSlideIndex

---------------------------------------------------------------------------
(* Specifications *)

Init ==
  /\ ProviderInit
  /\ EditorInit
  /\ deleted = {}
  /\ ops = 0
  /\ lastOp = "init"

\* PresentationProvider
Spec == Init /\ [][Next]_vars

\* Editor
SpecEditor == Init /\ [][EditorNext]_vars

\* both components late in a long editing session, their histories two
\* entries short of the limit
InitCap ==
  /\ ProviderIs(ProviderSession(SessionEdits))
  /\ EditorIs(EditorSession(EditorSessionEdits))
  /\ deleted = {}
  /\ ops = 0
  /\ lastOp = "session"

\* the page mounts one of the two components: the session belongs to the
\* Editor from its first handler on, and to the PresentationProvider otherwise
EditorHandlerNames ==
  {"Editor.loadSaved", "Editor.addSlide", "Editor.deleteSlide",
   "Editor.reorderSlides", "Editor.updateCurrentSlide", "Editor.undo",
   "Editor.redo", "Editor.createNewPresentation",
   "Editor.setFullPresentation", "Editor.setCurrentSlideIndex"}

EditorRuns == lastOp \in {"init", "session"} \cup EditorHandlerNames

ProviderRuns == lastOp \notin EditorHandlerNames

NextCap == (ProviderRuns /\ Next) \/ (EditorRuns /\ EditorNext)

SpecCap == InitCap /\ [][NextCap]_vars

\* either component from its mount
SpecBoth == Init /\ [][NextCap]_vars

\* PresentationProvider after a session that added a second slide and went
\* back to the first one, before the canvas is attached
ProviderDeck(M0) ==
  LET R0 == RenderOf(M0)
      M1 == Commit(R0, addSlide(R0, M0), "sync")
      R1 == RenderOf(M1)
  IN Commit(R1, [M1 EXCEPT !.currentSlideIndex = 0], "sync")

InitDeck ==
  /\ ProviderIs(ProviderDeck(ProviderMounted))
  /\ EditorInit
  /\ deleted = {}
  /\ ops = 0
  /\ lastOp = "session"

SpecDeck == InitDeck /\ [][Next]_vars

\* PresentationProvider with the event loop running: time passes while a timer
\* is pending and a timer that is due runs its callback
SpecFair ==
  /\ Init
  /\ [][Next]_vars
  /\ WF_vars(Tick)
  /\ WF_vars(HandleModification)
  /\ WF_vars(SlideLoadTimer)
  /\ WF_vars(ReloadTimer)
  /\ WF_vars(ReorderTimer)
  /\ WF_vars(LoadedTimer)

---------------------------------------------------------------------------
(* Claims *)

\* nothing is pending: no timer of a load, a transition or the debounce, and
\* no transition in progress
Quiescent ==
  /\ fabricCanvas
  /\ timers = <<>>
  /\ ~flags.isChangingSlide

\* the scenes stored for slide i of p: its objects, its fabricState and its
\* cache entry
StoredScenes(p, i, cache) ==
  LET s == SlideAt(p, i) IN
  IF s = <<>> THEN {}
  ELSE {s[1].objects}
       \cup {s[1].fabricState[k].objects : k \in 1..Len(s[1].fabricState)}
       \cup (IF s[1].id \in DOMAIN cache THEN {cache[s[1].id].objects} ELSE {})

\* C1: in every quiescent state the scene on the canvas is the scene stored
\* for the current slide (as its objects, its fabricState or its cache entry).
C1_SceneMatchesStoredState ==
  Quiescent =>
    canvas.objects \in StoredScenes(presentation, currentSlideIndex, slideCache)

\* C2: undo at cursor i > 0 leaves the cursor at i-1, redo at cursor
\* i < history.length-1 leaves it at i+1, and the live presentation then
\* equals the history entry at the new cursor; stated for the case the claim
\* singles out: a canvas is attached, the save that undo/redo runs first
\* appends a snapshot, and the slide index is kept.
C2_LiveEqualsEntryAtCursor ==
  [][(/\ ops' = ops + 1
      /\ lastOp' \in {"undo", "redo"}
      /\ fabricCanvas
      /\ ~flags.isChangingSlide
      /\ sinceUpdate > ThrottleTicks
      /\ currentSlideIndex' = currentSlideIndex) =>
       /\ historyIndex' = historyIndex + (IF lastOp' = "undo" THEN -1 ELSE 1)
       /\ historyIndex' \in 0..(Len(history') - 1)
       /\ presentation' = history'[historyIndex' + 1]]_vars

\* C3: undo and redo leave the history sequence as it was.
C3_UndoRedoKeepHistory ==
  [][(ops' = ops + 1 /\ lastOp' \in {"undo", "redo"}) => history' = history]_vars

\* C4: the reload that undo or redo schedules loads the state that the
\* restored snapshot holds for the current slide.
C4_ReloadShowsRestoredSnapshot ==
  [][(/\ lastOp \in {"undo", "redo"}
      /\ lastOp' = "reloadTimer"
      /\ Len(timers) = 1
      /\ fabricCanvas
      /\ SlideAt(presentation, currentSlideIndex) # <<>>)
     => canvas'.objects =
          presentation.slides[currentSlideIndex + 1].objects]_vars

\* C5: the history of PresentationProvider never holds more than 30 entries
\* and that of Editor never more than 50; a step that records a snapshot while
\* the history is full and the cursor is at its end drops the oldest entry,
\* keeps the others in order, appends the new one and leaves the cursor on it.
C5_HistoryCapped ==
  /\ [](Len(history) <= HistoryLimit /\ Len(eHistory) <= EditorHistoryLimit)
  /\ [][/\ (/\ Len(history) = HistoryLimit
            /\ historyIndex = HistoryLimit - 1
            /\ history' # history)
           => /\ history' = Append(Tail(history), history'[HistoryLimit])
              /\ historyIndex' = HistoryLimit - 1
        /\ (/\ Len(eHistory) = EditorHistoryLimit
            /\ eHistoryIndex = EditorHistoryLimit - 1
            /\ eHistory' # eHistory
            /\ lastOp' \in {"Editor.addSlide", "Editor.deleteSlide",
                            "Editor.reorderSlides",
                            "Editor.updateCurrentSlide"})
           => /\ eHistory' = Append(Tail(eHistory),
                                    eHistory'[EditorHistoryLimit])
              /\ eHistoryIndex' = EditorHistoryLimit - 1]_vars

\* C6: the cursor always designates an existing snapshot.
C6_CursorInRange ==
  /\ Len(history) >= 1
  /\ historyIndex >= 0
  /\ historyIndex <= Len(history) - 1

\* a debounced save has run with a history and cursor captured before later
\* changes, and has appended to the history it captured
C6_Witness ==
  /\ lastOp = "handleModification(stale)"
  /\ Len(history) >= 2
  /\ historyIndex = Len(history) - 1

SlideIds(p) == {p.slides[k].id : k \in 1..Len(p.slides)}

\* the scene stored under each slide id
SceneById(p) == {<<p.slides[k].id, p.slides[k].objects>> : k \in 1..Len(p.slides)}

\* C7: reorderSlides, called with nothing pending, keeps the set of ids and
\* the scene stored under each id, the current slide receiving the scene
\* captured from the canvas; the timer and the slide-change effect that
\* follow change neither the scene stored under any id nor any cache entry.
C7_ReorderOnlyPermutes ==
  [][/\ (ops' = ops + 1 /\ lastOp' = "reorderSlides" /\ Quiescent) =>
          /\ SlideIds(presentation') = SlideIds(presentation)
          /\ \A k \in 1..Len(presentation.slides) :
               LET s == presentation.slides[k]
               IN <<s.id, IF k = currentSlideIndex + 1
                            THEN canvas.objects ELSE s.objects>>
                    \in SceneById(presentation')
     /\ (lastOp = "reorderSlides" /\ lastOp' = "reorderTimer") =>
          /\ SceneById(presentation') = SceneById(presentation)
          /\ \A id \in DOMAIN slideCache :
               /\ id \in DOMAIN slideCache'
               /\ slideCache'[id] = slideCache[id]]_vars

\* C8: an object that stays in the Editor's history keeps its content
\* whatever is written through the live presentation; the history changes
\* only by an append after the entries up to the cursor (the oldest entry
\* dropped when the limit is exceeded) or by a reset to a single entry.
C8_SnapshotsIndependent ==
  [][/\ \A k \in 1..Len(eHistory), j \in 1..Len(eHistory') :
          eHistory'[j].oid = eHistory[k].oid
            => eHistory'[j].val = eHistory[k].val
     /\ LET kept == Slice(eHistory, eHistoryIndex + 1)
            n == Len(eHistory')
        IN \/ eHistory' = eHistory
           \/ /\ n = Len(kept) + 1
              /\ Slice(eHistory', n - 1) = kept
           \/ /\ Len(kept) = EditorHistoryLimit
              /\ n = EditorHistoryLimit
              /\ Slice(eHistory', n - 1) = Tail(kept)
           \/ /\ n = 1
              /\ lastOp' \in {"Editor.loadSaved",
                              "Editor.createNewPresentation",
                              "Editor.setFullPresentation"}]_vars

\* an entry stored two edits ago differs from the newest one
C8_Witness ==
  /\ lastOp = "Editor.updateCurrentSlide"
  /\ Len(eHistory) = 3
  /\ eHistory[1].val # eHistory[3].val
  /\ eHistory[1].val # ePresentation.val


DebounceTimers == SelectSeq(timers, LAMBDA t : t.kind = "debounce")

\* C9: at most one debounce timer is pending; every mutation event leaves
\* exactly one, restarted with the full delay of that event, so that the
\* timers of the earlier events of a burst never run; handleModification runs
\* only from the pending timer when it is due, and uses it up.
C9_DebounceCoalesces ==
  /\ [](Len(DebounceTimers) <= 1)
  /\ [][/\ ObjectModified =>
             /\ Len(DebounceTimers') = 1
             /\ DebounceTimers'[1].due = DebounceDelay
        /\ MouseUp =>
             /\ Len(DebounceTimers') = 1
             /\ DebounceTimers'[1].due = MouseUpDelay
        /\ HandleModification =>
             /\ Len(DebounceTimers) = 1
             /\ DebounceTimers[1].due = 0
             /\ DebounceTimers' = <<>>]_vars

\* an event has arrived while the timer of an earlier one was pending, and
\* the one timer of the burst is due
C9_Witness ==
  /\ lastOp \in {"objectModified(burst)", "mouseUp(burst)"}
  /\ Len(DebounceTimers) = 1
  /\ DebounceTimers[1].due = 0

C11_SetFullReplaces ==
  \A p \in EditorFullInputs :
    LET E == Editor_setFullPresentation(
               [EditorStore EXCEPT !.nextOid = @ + 1], p)
        canUndo == E.historyIndex > 0
        canRedo == E.historyIndex < Len(E.history) - 1
    IN /\ E.presentation.val = p.val
       /\ E.currentSlideIndex = 0
       /\ Len(E.history) = 1
       /\ E.history[1].val = p.val
       /\ E.historyIndex = 0
       /\ ~canUndo /\ ~canRedo

\* setFullPresentation has replaced a two-slide presentation whose history
\* held the added slide and whose current slide was the second one
C11_Witness ==
  /\ lastOp = "Editor.setFullPresentation"
  /\ ops = 2
  /\ Len(ePresentation.val.slides) = 2
  /\ Len(eHistory) = 1
  /\ eHistoryIndex = 0
  /\ eCurrentSlideIndex = 0

\* C12: the presentation of either component always has at least one slide,
\* and deleteSlide on a one-slide presentation leaves the presentation, the
\* current slide index, the history, the cursor and the cache as they were.
C12_AtLeastOneSlide ==
  /\ [](Len(presentation.slides) >= 1 /\ Len(ePresentation.val.slides) >= 1)
  /\ [][/\ (/\ ops' = ops + 1
            /\ lastOp' = "deleteSlide"
            /\ Len(presentation.slides) = 1)
           => UNCHANGED <<presentation, currentSlideIndex, history,
                          historyIndex, slideCache>>
        /\ (/\ lastOp' = "Editor.deleteSlide"
            /\ Len(ePresentation.val.slides) = 1)
           => UNCHANGED <<ePresentation, eCurrentSlideIndex, eHistory,
                          eHistoryIndex>>]_vars

\* deleteSlide has been called on the one slide the provider ever had, with
\* a cache entry for it
C12_Witness ==
  /\ lastOp = "deleteSlide"
  /\ nextId = 2
  /\ fabricCanvas
  /\ slideCache # <<>>
  /\ Len(presentation.slides) = 1

\* the ids of the slides of p, in order
IdsOf(p) == [k \in 1..Len(p.slides) |-> p.slides[k].id]

\* r is s with the element at from taken out and put back at position to
IsMoved(s, r, from, to) ==
  /\ Len(r) = Len(s)
  /\ r[to + 1] = s[from + 1]
  /\ RemoveAt(r, to) = RemoveAt(s, from)

\* C13: for the slides and current index of every reachable state and all
\* valid from, to, the reordered list is the old one with the slide at from
\* moved to position to and the updated index designates the slide that was
\* current; the reorderSlides steps of the Editor and of the provider (for
\* the provider with a canvas: the step of its 100 ms timer, when nothing
\* has changed the presentation or the index since the call) leave the
\* current slide index on the slide id that was current.
C13_ReorderFollowsCurrent ==
  /\ [](\A p \in {presentation, ePresentation.val} :
          \A c, from, to \in 0..(Len(p.slides) - 1) :
            LET moved == MoveSlide(p.slides, from, to)
            IN /\ IsMoved(p.slides, moved, from, to)
               /\ moved[MovedIndex(c, from, to) + 1].id = p.slides[c + 1].id)
  /\ [][/\ (/\ lastOp' = "Editor.reorderSlides"
            /\ SlideAt(ePresentation.val, eCurrentSlideIndex) # <<>>)
           => /\ \E from, to \in 0..(Len(ePresentation.val.slides) - 1) :
                   IsMoved(IdsOf(ePresentation.val), IdsOf(ePresentation'.val),
                           from, to)
              /\ SlideAt(ePresentation'.val, eCurrentSlideIndex') # <<>>
              /\ ePresentation'.val.slides[eCurrentSlideIndex' + 1].id
                   = ePresentation.val.slides[eCurrentSlideIndex + 1].id
        /\ (/\ ops' = ops + 1
            /\ lastOp' = "reorderSlides"
            /\ SlideAt(presentation, currentSlideIndex) # <<>>
            /\ ~(fabricCanvas /\ ~flags.isChangingSlide))
           => /\ SlideAt(presentation', currentSlideIndex') # <<>>
              /\ presentation'.slides[currentSlideIndex' + 1].id
                   = presentation.slides[currentSlideIndex + 1].id
        /\ (/\ lastOp = "reorderSlides"
            /\ lastOp' = "reorderTimer"
            /\ Len(timers) = 1
            /\ currentSlideIndex = timers[DueTimer].env.currentSlideIndex
            /\ presentation = history[historyIndex + 1]
            /\ SlideAt(timers[DueTimer].env.presentation,
                       timers[DueTimer].env.currentSlideIndex) # <<>>)
           => LET R == timers[DueTimer].env
              IN /\ SlideAt(presentation', currentSlideIndex') # <<>>
                 /\ presentation'.slides[currentSlideIndex' + 1].id
                      = R.presentation.slides[R.currentSlideIndex + 1].id]_vars

\* the Editor has moved the first of three slides to the end while the third
\* was current: the current index has followed it to the middle
C13_Witness ==
  /\ lastOp = "Editor.reorderSlides"
  /\ IdsOf(ePresentation.val) = <<2, 3, 1>>
  /\ eCurrentSlideIndex = 1

\* C14: a step of the provider that changes the history leaves it equal to
\* the entries 0..historyIndex it had before the step followed by one new
\* snapshot, without the oldest entry when that exceeds the limit.
C14_AppendAfterCursor ==
  [][history' # history =>
       LET kept == Slice(history, historyIndex + 1)
           appended == Append(kept, history'[Len(history')])
       IN history' = IF Len(appended) > HistoryLimit
                       THEN Tail(appended) ELSE appended]_vars

\* C15: the step in which the debounce timer runs handleModification keeps
\* the title, the number and order of the slides and every slide other than
\* the one at currentSlideIndex as they were in the live presentation.
C15_SaveChangesCurrentSlideOnly ==
  [][HandleModification =>
       /\ presentation'.title = presentation.title
       /\ IdsOf(presentation') = IdsOf(presentation)
       /\ \A k \in 1..Len(presentation.slides) :
            k # currentSlideIndex + 1
              => presentation'.slides[k] = presentation.slides[k]]_vars

\* C16: deleteSlide on more than one slide removes exactly the slide at
\* currentSlideIndex from the presentation and the cache and leaves every
\* other slide as it was, and an id it removed is in neither the presentation
\* nor the cache until an undo or a redo brings it back.
C16_DeleteIsDurable ==
  /\ [](deleted \cap (SlideIds(presentation) \cup DOMAIN slideCache) = {})
  /\ [][(lastOp' = "deleteSlide" /\ ops' = ops + 1
           /\ Len(presentation.slides) > 1
           /\ currentSlideIndex < Len(presentation.slides))
          => /\ presentation'.title = presentation.title
             /\ presentation'.slides =
                  RemoveAt(presentation.slides, currentSlideIndex)
             /\ presentation.slides[currentSlideIndex + 1].id
                  \notin DOMAIN slideCache']_vars

\* C17: a deleteSlide that removes a slide, whether or not a slide transition
\* is in progress, leaves a state in which the history has a snapshot of the
\* new presentation at the cursor and an undo yields a presentation that
\* contains the id of the deleted slide.
C17_DeleteIsUndoable ==
  [][(lastOp' = "deleteSlide" /\ ops' = ops + 1
        /\ Len(presentation.slides) > 1
        /\ currentSlideIndex < Len(presentation.slides))
       => /\ history'[historyIndex' + 1] = presentation'
          /\ presentation.slides[currentSlideIndex + 1].id
               \in SlideIds(undo(Render', Store').presentation)]_vars

\* C18: a debounced save that runs 1000 ms or less after the last save that
\* appended to the history stores the canvas state in the live presentation
\* and, under the id of the slide it saves, in the cache, and leaves history
\* and historyIndex as they were; a save appends, and restarts the throttle
\* interval, only when more than 1000 ms have passed since the last save that
\* appended.
C18_HistoryThrottled ==
  /\ [][(/\ HandleModification
         /\ ~flags.isChangingSlide
         /\ sinceUpdate <= ThrottleTicks)
          => LET R == timers[DueTimer].env
                 cur == SlideAt(R.presentation, R.currentSlideIndex)
             IN /\ history' = history
                /\ historyIndex' = historyIndex
                /\ SlideAt(presentation', R.currentSlideIndex) # <<>>
                /\ presentation'.slides[R.currentSlideIndex + 1].fabricState
                     = <<CanvasState(canvas)>>
                /\ cur # <<>>
                     => /\ cur[1].id \in DOMAIN slideCache'
                        /\ slideCache'[cur[1].id] = CanvasState(canvas)]_vars
  /\ [][(HandleModification /\ history' # history)
          => sinceUpdate > ThrottleTicks /\ sinceUpdate' = 0]_vars
  /\ [][sinceUpdate' < sinceUpdate
          => sinceUpdate > ThrottleTicks /\ sinceUpdate' = 0]_vars

\* a debounced save has run within the second after a save that appended
C18_Witness ==
  /\ lastOp \in {"handleModification", "handleModification(stale)"}
  /\ ~flags.isChangingSlide
  /\ sinceUpdate > 0
  /\ sinceUpdate <= ThrottleTicks
  /\ SlideAt(presentation, currentSlideIndex) # <<>>
  /\ presentation.slides[currentSlideIndex + 1].fabricState
       = <<CanvasState(canvas)>>
  /\ presentation.slides[currentSlideIndex + 1].id \in DOMAIN slideCache
  /\ slideCache[presentation.slides[currentSlideIndex + 1].id]
       = CanvasState(canvas)

\* a slide switch, an undo/redo reload or a reorder has set isChangingSlide
\* and the load it leads to has not started yet
TransitionPending ==
  \E i \in 1..Len(timers) : timers[i].kind \in {"load", "reload", "reorder"}

\* C19: while a transition is on its way to its load, isChangingSlide is true
\* and a handleModification writes nothing to the cache, the presentation or
\* the history, also when a second transition began before the timers of the
\* first had run.
C19_FlagHeldDuringTransition ==
  /\ [](TransitionPending => flags.isChangingSlide)
  /\ [][(HandleModification /\ TransitionPending)
          => UNCHANGED <<slideCache, presentation, history,
                         historyIndex>>]_vars

\* C20: whenever isChangingSlide is true it is false again at some later
\* time, once the pending timers have run.
C20_FlagEventuallyCleared ==
  flags.isChangingSlide ~> ~flags.isChangingSlide

====
